---------------------------- MODULE Spec2Model ----------------------------
(***************************************************************************)
(* A model of git-pr: pull requests layered on branches of a bare remote.  *)
(*                                                                         *)
(* Text is modelled as a sequence of characters, each character a string   *)
(* of the module ("a", "/", "\n"); a character outside ASCII is written by *)
(* its code point ("U+0663").  Every string operation of the source        *)
(* (lines, trim_start, trim_end, the regular expressions) is an operator   *)
(* on such sequences, computed the way the Rust library computes it.       *)
(*                                                                         *)
(* The module holds one specification per part of the program:             *)
(*   SpecBranchName   BranchName::from_str and looks_like_pr               *)
(*   SpecPrNames      extract_pr_names                                     *)
(*   SpecDeletable    extract_deletable_branches                           *)
(*   SpecListOf       ListOf<T>::from_str and its Iterator::next           *)
(*   SpecExec         one call of a Git or Execute operation               *)
(*   SpecCommand      repeated Execute calls on one process::Command       *)
(*   SpecClean        git-pr-clean                                         *)
(*   SpecCreate       git-pr-create                                        *)
(*   SpecAbandon      git-pr-abandon                                       *)
(*   SpecLocalBranch  LocalBranch::from_str                                *)
(*   SpecFakeGit      the Git operations with bin/fake_git as the program  *)
(* Each specification owns some of the variables and leaves the others at  *)
(* their idle values.                                                      *)
(***************************************************************************)
EXTENDS Naturals, Sequences, FiniteSets, TLC

VARIABLES
    pc,          \* where the running driver or harness stands
    s,           \* BranchName::from_str: the string being parsed
    name,        \* the parsed BranchName: <<>> before the parse, <<record>> after
    is_pr,       \* the answer of looks_like_pr
    branches,    \* the listing text handed to an extraction function
    pr_names,    \* what extract_pr_names returned
    deletable,   \* what extract_deletable_branches returned
    source,      \* ListOf::from_str: the text being parsed
    record_type, \* the T of ListOf<T>: "u8" or "LocalBranch"
    storage,     \* ListOf.storage
    yielded,     \* the items next() has returned so far, in order
    nones,       \* how many times next() has returned None
    op,          \* SpecExec: the operation that was called
    argv,        \* the argument vector the program was launched with
    outcome,     \* what launching the program came to
    result,      \* what the operation returned
    launches,    \* how many times the call launched the program
    command,     \* SpecCommand: the process::Command the calls are made on
    call_args,   \* the args every call of the run is given
    history,     \* one record per call: the launch and what was returned
    cli_arg,     \* the drivers: <<>> with no argument, <<name>> with one
    head,        \* the repository: the branch that is checked out
    merged,      \* the local branches merged into trunk when the run starts
    local_branches, \* the local branches merged into trunk that exist now
    calls,       \* the Git operations called so far: operation, argv, result
    todo,        \* what the running for loop has still to visit
    status,      \* git-pr-abandon: <<>> for None, <<error>> for Some(error)
    branch_name, \* git-pr-create: the name of the new branch
    remotes_to_delete, \* git-pr-abandon: the remote branches to delete
    locals_to_delete,  \* git-pr-abandon: the local branches to delete
    exit_code,   \* the exit status, once pc = "exited"
    input_line,  \* LocalBranch::from_str: the line being parsed
    parsed       \* its Result: <<>> for Err(MissingName), <<record>> for Ok

varsBranchName == <<s, name, is_pr>>
varsExtract == <<branches, pr_names, deletable>>
varsListOf == <<source, record_type, storage, yielded, nones>>
varsExec == <<op, argv, outcome, result, launches>>
varsCommand == <<command, call_args, history>>
varsRepo == <<head, merged, local_branches>>
varsLocalBranch == <<input_line, parsed>>
varsDriver ==
    <<cli_arg, calls, todo, status, branch_name, remotes_to_delete,
      locals_to_delete, exit_code>>

vars ==
    <<pc, varsBranchName, varsExtract, varsListOf, varsExec, varsCommand,
      varsRepo, varsDriver, varsLocalBranch>>

\* What each specification leaves alone.
varsDrivers == <<varsRepo, varsDriver>>
othersBranchName ==
    <<varsExtract, varsListOf, varsExec, varsCommand, varsDrivers, varsLocalBranch>>
othersExtract ==
    <<varsBranchName, varsListOf, varsExec, varsCommand, varsDrivers, varsLocalBranch>>
othersListOf ==
    <<varsBranchName, varsExtract, varsExec, varsCommand, varsDrivers, varsLocalBranch>>
othersExec ==
    <<varsBranchName, varsExtract, varsListOf, varsCommand, varsDrivers, varsLocalBranch>>
othersCommand ==
    <<varsBranchName, varsExtract, varsListOf, varsExec, varsDrivers, varsLocalBranch>>
othersLocalBranch ==
    <<varsBranchName, varsExtract, varsListOf, varsExec, varsCommand, varsDrivers>>
othersDrivers ==
    <<varsBranchName, varsExtract, varsListOf, varsExec, varsCommand, varsLocalBranch>>

IdleBranchName == s = <<>> /\ name = <<>> /\ is_pr = FALSE
IdleExtract == branches = <<>> /\ pr_names = <<>> /\ deletable = <<>>
IdleListOf ==
    /\ source = <<>> /\ record_type = "u8" /\ storage = <<>>
    /\ yielded = <<>> /\ nones = 0

IdleExec ==
    /\ op = "" /\ argv = <<>> /\ outcome = [launched |-> FALSE, error |-> ""]
    /\ result = [ok |-> TRUE, value |-> <<>>] /\ launches = 0

IdleCommand ==
    /\ command = [program |-> <<>>, args |-> <<>>] /\ call_args = <<>>
    /\ history = <<>>

IdleRepo == head = <<>> /\ merged = {} /\ local_branches = {}

IdleDriver ==
    /\ cli_arg = <<>> /\ calls = <<>> /\ todo = <<>> /\ status = <<>>
    /\ branch_name = <<>> /\ remotes_to_delete = <<>> /\ locals_to_delete = <<>>
    /\ exit_code = 0

IdleDrivers == IdleRepo /\ IdleDriver

IdleLocalBranch == input_line = <<>> /\ parsed = <<>>

IdleButBranchName ==
    /\ IdleExtract
    /\ IdleListOf
    /\ IdleExec
    /\ IdleCommand
    /\ IdleDrivers
    /\ IdleLocalBranch
IdleButExtract ==
    /\ IdleBranchName
    /\ IdleListOf
    /\ IdleExec
    /\ IdleCommand
    /\ IdleDrivers
    /\ IdleLocalBranch
IdleButListOf ==
    /\ IdleBranchName
    /\ IdleExtract
    /\ IdleExec
    /\ IdleCommand
    /\ IdleDrivers
    /\ IdleLocalBranch
IdleButExec ==
    /\ IdleBranchName
    /\ IdleExtract
    /\ IdleListOf
    /\ IdleCommand
    /\ IdleDrivers
    /\ IdleLocalBranch
IdleButCommand ==
    /\ IdleBranchName
    /\ IdleExtract
    /\ IdleListOf
    /\ IdleExec
    /\ IdleDrivers
    /\ IdleLocalBranch
IdleButLocalBranch ==
    /\ IdleBranchName
    /\ IdleExtract
    /\ IdleListOf
    /\ IdleExec
    /\ IdleCommand
    /\ IdleDrivers
IdleButDrivers ==
    /\ IdleBranchName
    /\ IdleExtract
    /\ IdleListOf
    /\ IdleExec
    /\ IdleCommand
    /\ IdleLocalBranch

---------------------------------------------------------------------------
(* Bounds of the model.                                                    *)

MaxNameLen == 3
MaxBodyLen == 3
MaxLines == 4
MaxGutter == 2
MaxTrail == 1
MaxNones == 2
MaxExit == 2
MaxOutLen == 3
MaxCalls == 3
MaxBranches == 3
MaxDeletes == 2
MaxLineLen == 4

---------------------------------------------------------------------------
(* Characters and strings.                                                 *)

\* All sequences over `alphabet` of length at most n.
Strings(alphabet, n) == UNION { [1..k -> alphabet] : k \in 0..n }

Last(str) == str[Len(str)]

\* The characters 0-9.
AsciiDigits == {"0", "1", "2", "3", "4", "5", "6", "7", "8", "9"}

\* A decimal digit outside ASCII (ARABIC-INDIC DIGIT THREE): the regex crate's
\* \d is Unicode-aware unless (?-u) is given, and is the class \p{Nd}.
OtherDecimalDigits == {"U+0663"}

\* The character class [a-f\d] of both ends_with_hex patterns.
HexClass == {"a", "b", "c", "d", "e", "f"} \cup AsciiDigits \cup OtherDecimalDigits

\* char::is_whitespace, which str::trim_start, trim_end and split_whitespace use.
WhiteSpace == {" ", "\t", "\n", "\r", "\f", "U+000B", "U+0085", "U+00A0", "U+2028"}

---------------------------------------------------------------------------
(* branch_name.rs                                                          *)

\* Regex "/[a-f\d]+$" searched in `str`: some "/" is followed, up to the end
\* of the text, by one or more characters of the class ($ is the end of the
\* text: the pattern is not multi-line).
ends_with_hex_is_match(str) ==
    \E p \in 1..Len(str) :
        /\ str[p] = "/"
        /\ p < Len(str)
        /\ \A q \in (p + 1)..Len(str) : str[q] \in HexClass

\* A pattern without its "/": "[a-f\d]+$".
looks_like_pr_NoSlash(b) ==
    b.value # <<>> /\ b.value[Len(b.value)] \in HexClass

\* A pattern that lets the run of digits be empty: "/[a-f\d]*$".
looks_like_pr_EmptySuffix(b) ==
    \E p \in 1..Len(b.value) :
        /\ b.value[p] = "/"
        /\ \A q \in (p + 1)..Len(b.value) : b.value[q] \in HexClass

looks_like_pr(b) == ends_with_hex_is_match(b.value)

BranchName_from_str(str) == [value |-> str]

---------------------------------------------------------------------------
(* Text operations of the Rust standard library.                           *)

\* The number of consecutive characters c of str from position `from` on.
Run(str, from, c) ==
    CHOOSE k \in 0..Len(str) :
        /\ \A i \in from..(from + k - 1) : i <= Len(str) /\ str[i] = c
        /\ (from + k > Len(str) \/ str[from + k] # c)

\* Whether `lit` stands in str at position `from`.
HasAt(str, from, lit) ==
    /\ from + Len(lit) - 1 <= Len(str)
    /\ \A i \in 1..Len(lit) : str[from + i - 1] = lit[i]

\* A line as str::lines yields it: without its "\n", and without the "\r" of
\* a "\r\n" ending.
StripCR(line) ==
    IF line # <<>> /\ Last(line) = "\r" THEN SubSeq(line, 1, Len(line) - 1)
    ELSE line

\* str::lines: split at each "\n"; a final line ending opens no further line.
RECURSIVE lines(_)
lines(text) ==
    IF text = <<>> THEN <<>>
    ELSE LET breaks == { p \in 1..Len(text) : text[p] = "\n" }
         IN  IF breaks = {} THEN <<text>>
             ELSE LET p == CHOOSE b \in breaks : \A c \in breaks : b <= c
                  IN  <<StripCR(SubSeq(text, 1, p - 1))>>
                          \o lines(SubSeq(text, p + 1, Len(text)))

\* str::trim_start: drop the leading white space.
RECURSIVE trim_start(_)
trim_start(str) ==
    IF str # <<>> /\ Head(str) \in WhiteSpace THEN trim_start(Tail(str)) ELSE str

\* A trim_end that drops one line ending and nothing else.
trim_end_OneNewline(str) ==
    IF Len(str) >= 2 /\ str[Len(str) - 1] = "\r" /\ str[Len(str)] = "\n"
    THEN SubSeq(str, 1, Len(str) - 2)
    ELSE IF str # <<>> /\ str[Len(str)] = "\n" THEN SubSeq(str, 1, Len(str) - 1)
    ELSE str

\* str::trim_end: drop the trailing white space, all of it.
RECURSIVE trim_end(_)
trim_end(str) ==
    IF str # <<>> /\ Last(str) \in WhiteSpace
    THEN trim_end(SubSeq(str, 1, Len(str) - 1))
    ELSE str

\* str::starts_with
starts_with(str, lit) == HasAt(str, 1, lit)

---------------------------------------------------------------------------
(* lib.rs: the extraction functions.                                       *)

RemotesOrigin ==
    <<"r", "e", "m", "o", "t", "e", "s", "/", "o", "r", "i", "g", "i", "n", "/">>

Trunk == <<"t", "r", "u", "n", "k">>

\* Regex "^ *\** remotes/origin/" matched at the start of `line`: the length
\* of the match, 0 when there is none.  The spaces and the stars are greedy;
\* with a star the single space of the pattern must follow the stars, and
\* with no star the last of the leading spaces is the one the pattern asks for.
begins_with_remote_ref_end(line) ==
    LET n == Run(line, 1, " ")
        m == Run(line, n + 1, "*")
    IN  IF m > 0
        THEN IF HasAt(line, n + m + 1, <<" ">> \o RemotesOrigin)
             THEN n + m + 1 + Len(RemotesOrigin) ELSE 0
        ELSE IF n >= 1 /\ HasAt(line, n + 1, RemotesOrigin)
             THEN n + Len(RemotesOrigin) ELSE 0

\* A pattern that takes any remote: "^ *\** remotes/".
begins_with_remote_ref_is_match_AnyRemote(line) ==
    LET n == Run(line, 1, " ")
        m == Run(line, n + 1, "*")
        remotes == <<"r", "e", "m", "o", "t", "e", "s", "/">>
    IN  IF m > 0 THEN HasAt(line, n + m + 1, <<" ">> \o remotes)
        ELSE n >= 1 /\ HasAt(line, n + 1, remotes)

begins_with_remote_ref_is_match(line) == begins_with_remote_ref_end(line) > 0

\* begins_with_remote_ref.replace_all(line, ""): the pattern is anchored, so
\* it matches at most once.
begins_with_remote_ref_replace_all(line) ==
    SubSeq(line, begins_with_remote_ref_end(line) + 1, Len(line))

\* ends_with_hex.replace_all(line, ""): the match, if any, starts at the last
\* "/" and runs to the end; a text the pattern does not match is returned whole.
ends_with_hex_replace_all(line) ==
    IF ends_with_hex_is_match(line)
    THEN LET p == CHOOSE q \in 1..Len(line) :
                      /\ line[q] = "/"
                      /\ \A r \in (q + 1)..Len(line) : line[r] \in HexClass
         IN  SubSeq(line, 1, p - 1)
    ELSE line

\* Both filters, then both replacements, line by line.
extract_pr_names(text) ==
    LET pr_branches ==
            SelectSeq(SelectSeq(lines(text), begins_with_remote_ref_is_match),
                      ends_with_hex_is_match)
    IN  [i \in 1..Len(pr_branches) |->
            ends_with_hex_replace_all(
                begins_with_remote_ref_replace_all(pr_branches[i]))]

NotCurrent(line) == ~starts_with(line, <<"*">>)

NotTrunk(b) == b # Trunk

\* The two trims of the pipeline, applied to every line.
Trimmed(ls) == [i \in 1..Len(ls) |-> trim_end(trim_start(ls[i]))]

\* extract_deletable_branches with the trunk test made on the untrimmed line.
extract_deletable_branches_TrunkBeforeTrim(text) ==
    Trimmed(SelectSeq(SelectSeq(lines(text), NotCurrent), NotTrunk))

\* lines, skip the current branch, trim on both sides, drop trunk.
extract_deletable_branches(text) ==
    SelectSeq(Trimmed(SelectSeq(lines(text), NotCurrent)), NotTrunk)

---------------------------------------------------------------------------
(* SpecBranchName: parse a string into a BranchName, then classify it.      *)

BranchAlphabet == {"a", "g", "A", "0", "/", "U+0663"}

InitBranchName ==
    /\ pc = "start"
    /\ s \in Strings(BranchAlphabet, MaxNameLen)
    /\ name = <<>>
    /\ is_pr = FALSE
    /\ IdleButBranchName

ParseBranchName ==
    /\ pc = "start"
    /\ name' = <<BranchName_from_str(s)>>
    /\ pc' = "parsed"
    /\ UNCHANGED <<s, is_pr, othersBranchName>>

LooksLikePr ==
    /\ pc = "parsed"
    /\ is_pr' = looks_like_pr(name[1])
    /\ pc' = "done"
    /\ UNCHANGED <<s, name, othersBranchName>>

NextBranchName == ParseBranchName \/ LooksLikePr

SpecBranchName == InitBranchName /\ [][NextBranchName]_vars

\* The text after the last "/" of str, the whole of str when it has none.
FinalSegment(str) ==
    LET slashes == { p \in 1..Len(str) : str[p] = "/" }
        from == IF slashes = {} THEN 1
                ELSE 1 + CHOOSE p \in slashes : \A q \in slashes : q <= p
    IN  SubSeq(str, from, Len(str))

HasSlash(str) == \E p \in 1..Len(str) : str[p] = "/"

AllIn(str, class) == \A p \in 1..Len(str) : str[p] \in class

AsciiHexLower == {"a", "b", "c", "d", "e", "f"} \cup AsciiDigits

C14_NoSlash ==
    pc = "done" =>
        /\ ~HasSlash(s) => ~is_pr
        /\ (HasSlash(s) /\ FinalSegment(s) # <<>> /\ AllIn(FinalSegment(s), AsciiDigits))
               => is_pr

\* A string of hex digits only, with no "/", has been refused.
C14_Witness == pc = "done" /\ ~is_pr /\ s = <<"a", "0">>

---------------------------------------------------------------------------
(* local_branch.rs                                                         *)

\* str::split_whitespace: the maximal runs of characters that are not white
\* space, in order.
RECURSIVE split_whitespace(_)
split_whitespace(str) ==
    LET rest == trim_start(str)
    IN  IF rest = <<>> THEN <<>>
        ELSE LET blanks == { p \in 1..Len(rest) : rest[p] \in WhiteSpace }
                 stop == IF blanks = {} THEN Len(rest) + 1
                         ELSE CHOOSE p \in blanks : \A q \in blanks : p <= q
             IN  <<SubSeq(rest, 1, stop - 1)>>
                     \o split_whitespace(SubSeq(rest, stop, Len(rest)))

LocalBranch_new(is_head, str) == [name |-> BranchName_from_str(str), is_head |-> is_head]

\* from_str that drops the marker without recording it.
LocalBranch_from_str_NeverHead(line) ==
    LET components == split_whitespace(line)
    IN  IF components = <<>> THEN <<>>
        ELSE IF components[1] = <<"*">>
             THEN IF Len(components) = 1 THEN <<>>
                  ELSE <<LocalBranch_new(FALSE, components[2])>>
        ELSE <<LocalBranch_new(FALSE, components[1])>>

\* from_str that takes a "*" with nothing after it for a branch name.
LocalBranch_from_str_LoneStar(line) ==
    LET components == split_whitespace(line)
    IN  IF components = <<>> THEN <<>>
        ELSE IF components[1] = <<"*">> /\ Len(components) > 1
             THEN <<LocalBranch_new(TRUE, components[2])>>
        ELSE <<LocalBranch_new(FALSE, components[1])>>

\* LocalBranch::from_str: <<record>> for Ok(record), <<>> for
\* Err(ParseError::MissingName).
LocalBranch_from_str(line) ==
    LET components == split_whitespace(line)
    IN  IF components = <<>> THEN <<>>
        ELSE IF components[1] = <<"*">>
             THEN IF Len(components) = 1 THEN <<>>
                  ELSE <<LocalBranch_new(TRUE, components[2])>>
        ELSE <<LocalBranch_new(FALSE, components[1])>>

---------------------------------------------------------------------------
(* list_of.rs                                                              *)

U8Max == 255

Digits == <<"0", "1", "2", "3", "4", "5", "6", "7", "8", "9">>

DigitValue(c) == (CHOOSE i \in 1..10 : Digits[i] = c) - 1

RECURSIVE DecimalValue(_)
DecimalValue(ds) ==
    IF ds = <<>> THEN 0
    ELSE 10 * DecimalValue(SubSeq(ds, 1, Len(ds) - 1)) + DigitValue(Last(ds))

\* u8::from_str, the T of the module's tests: an optional "+", then one or
\* more of 0-9 and nothing else, of a value that fits; <<value>> for Ok,
\* <<>> for Err.
u8_from_str(line) ==
    LET ds == IF line # <<>> /\ Head(line) = "+" THEN Tail(line) ELSE line
    IN  IF ds = <<>> \/ \E p \in 1..Len(ds) : ds[p] \notin AsciiDigits THEN <<>>
        ELSE IF DecimalValue(ds) > U8Max THEN <<>>
        ELSE <<DecimalValue(ds)>>

\* line.parse::<T>()
parse(T, line) ==
    IF T = "u8" THEN u8_from_str(line) ELSE LocalBranch_from_str(line)

\* s.lines().filter_map(|line| line.parse::<T>().ok()): the successes, in
\* line order.
RECURSIVE filter_map_parse(_, _)
filter_map_parse(T, ls) ==
    IF ls = <<>> THEN <<>>
    ELSE parse(T, Head(ls)) \o filter_map_parse(T, Tail(ls))

Reverse(seq) == [i \in 1..Len(seq) |-> seq[Len(seq) + 1 - i]]

\* from_str that collects without .rev().
ListOf_from_str_NoRev(T, text) == filter_map_parse(T, lines(text))

\* ListOf::from_str: the storage holds the records last line first, so that
\* pop() takes the first line's record first.
ListOf_from_str(T, text) == Reverse(filter_map_parse(T, lines(text)))

---------------------------------------------------------------------------
(* Launching the external program.                                         *)

\* What Command::output() or Command::status() comes to: the program could
\* not be started (an io::Error), or it ran and left an exit status and, for
\* output(), the bytes it wrote to standard output.
IoErrors == {"NotFound", "PermissionDenied"}

\* Standard output, byte by byte; "0xFF" is a byte that is not valid UTF-8.
OutAlphabet == {"a", " ", "\n", "\r", "0xFF"}

Outcomes ==
    { [launched |-> FALSE, error |-> e] : e \in IoErrors }
        \cup { [launched |-> TRUE, status |-> c, stdout |-> o] :
                   c \in 0..MaxExit, o \in Strings(OutAlphabet, MaxOutLen) }

\* String::from_utf8_lossy: an invalid byte becomes U+FFFD.
from_utf8_lossy(bytes) ==
    [i \in 1..Len(bytes) |-> IF bytes[i] = "0xFF" THEN "U+FFFD" ELSE bytes[i]]

\* Result values.
Ok(v) == [ok |-> TRUE, value |-> v]
Err(e) == [ok |-> FALSE, err |-> e]

---------------------------------------------------------------------------
(* lib.rs: the Git client.  Each operation is its argument vector and the  *)
(* value it returns for an outcome of the launch.                          *)

S_C == <<"-", "C">>
S_dot == <<".">>
S_git == <<"g", "i", "t">>
S_version == <<"-", "-", "v", "e", "r", "s", "i", "o", "n">>
S_fetch == <<"f", "e", "t", "c", "h">>
S_prune == <<"-", "-", "p", "r", "u", "n", "e">>
S_branch == <<"b", "r", "a", "n", "c", "h">>
S_a == <<"-", "a">>
S_merged == <<"-", "-", "m", "e", "r", "g", "e", "d">>
S_rev_parse == <<"r", "e", "v", "-", "p", "a", "r", "s", "e">>
S_short == <<"-", "-", "s", "h", "o", "r", "t">>
S_HEAD == <<"H", "E", "A", "D">>
S_checkout == <<"c", "h", "e", "c", "k", "o", "u", "t">>
S_b == <<"-", "b">>
S_d == <<"-", "d">>
S_push == <<"p", "u", "s", "h">>
S_u == <<"-", "u">>
S_origin == <<"o", "r", "i", "g", "i", "n">>

Io(e) == [kind |-> "Io", error |-> e]
Exit(exit_status) == [kind |-> "Exit", status |-> exit_status]

\* impl From<io::Error> for GitError
GitError_from(e) == Io(e)

\* ExitStatus::success
success(exit_status) == exit_status = 0

\* An assert_success that takes every status for a success.
assert_success_Always(exit_status) == Ok(<<>>)

assert_success(exit_status) ==
    IF success(exit_status) THEN Ok(<<>>) ELSE Err(Exit(exit_status))

\* Git::new
Git_new == [program |-> S_git, working_dir |-> S_dot]

\* Command::new(&self.program).arg("-C").arg(self.working_dir)
Git_command(git) == <<S_C, git.working_dir>>

version_argv(git) == Git_command(git) \o <<S_version>>

version(out) ==
    IF ~out.launched THEN Err(GitError_from(out.error))
    ELSE IF ~assert_success(out.status).ok THEN assert_success(out.status)
    ELSE Ok(from_utf8_lossy(out.stdout))

fetch_prune_argv(git) == Git_command(git) \o <<S_fetch, S_prune>>

fetch_prune(out) ==
    IF ~out.launched THEN Err(GitError_from(out.error))
    ELSE IF ~assert_success(out.status).ok THEN assert_success(out.status)
    ELSE Ok(<<>>)

all_branches_argv(git) == Git_command(git) \o <<S_branch, S_a>>

all_branches(out) ==
    IF ~out.launched THEN Err(GitError_from(out.error))
    ELSE IF ~assert_success(out.status).ok THEN assert_success(out.status)
    ELSE Ok(from_utf8_lossy(out.stdout))

merged_branches_argv(git) == Git_command(git) \o <<S_branch, S_merged, Trunk>>

\* The listing parsed into LocalBranches; the parse cannot fail.
merged_branches(out) ==
    IF ~out.launched THEN Err(GitError_from(out.error))
    ELSE IF ~assert_success(out.status).ok THEN assert_success(out.status)
    ELSE Ok(ListOf_from_str("LocalBranch", from_utf8_lossy(out.stdout)))

rev_parse_head_argv(git) == Git_command(git) \o <<S_rev_parse, S_short, S_HEAD>>

rev_parse_head(out) ==
    IF ~out.launched THEN Err(GitError_from(out.error))
    ELSE IF ~assert_success(out.status).ok THEN assert_success(out.status)
    ELSE Ok(trim_end(from_utf8_lossy(out.stdout)))

create_branch_argv(git, b) == Git_command(git) \o <<S_checkout, S_b, b>>

create_branch(out) ==
    IF ~out.launched THEN Err(GitError_from(out.error))
    ELSE IF ~assert_success(out.status).ok THEN assert_success(out.status)
    ELSE Ok(<<>>)

delete_branch_argv(git, b) == Git_command(git) \o <<S_branch, S_d, b>>

delete_branch(out) ==
    IF ~out.launched THEN Err(GitError_from(out.error))
    ELSE IF ~assert_success(out.status).ok THEN assert_success(out.status)
    ELSE Ok(<<>>)

push_upstream_argv(git, b) == Git_command(git) \o <<S_push, S_u, S_origin, b>>

push_upstream(out) ==
    IF ~out.launched THEN Err(GitError_from(out.error))
    ELSE IF ~assert_success(out.status).ok THEN assert_success(out.status)
    ELSE Ok(<<>>)

---------------------------------------------------------------------------
(* execute.rs: the Execute trait on process::Command.                      *)

\* impl From<io::Error> for ExecutionError
ExecutionError_from(e) == Io(e)

Execute_assert_success(exit_status) ==
    IF success(exit_status) THEN Ok(<<>>) ELSE Err(Exit(exit_status))

\* Command::new(program): no arguments yet.
Command_new(program) == [program |-> program, args |-> <<>>]

\* Command::args(args): the arguments are added to those the Command holds.
Command_args(cmd, args) == [cmd EXCEPT !.args = @ \o args]

\* capture_nothing: self.args(args).status()?, then assert_success.
capture_nothing(out) ==
    IF ~out.launched THEN Err(ExecutionError_from(out.error))
    ELSE IF ~Execute_assert_success(out.status).ok
         THEN Execute_assert_success(out.status)
    ELSE Ok(<<>>)

\* capture_stdout: self.args(args).output()?, then assert_success, then the
\* decoded output without its trailing white space.
capture_stdout(out) ==
    IF ~out.launched THEN Err(ExecutionError_from(out.error))
    ELSE IF ~Execute_assert_success(out.status).ok
         THEN Execute_assert_success(out.status)
    ELSE Ok(trim_end(from_utf8_lossy(out.stdout)))

---------------------------------------------------------------------------
(* Listing texts the extraction functions are run on.                      *)

LF == <<"\n">>
CRLF == <<"\r", "\n">>

\* The lines of `ls`, each followed by `eol`; the last one only if `final`.
\* (A lone "\r" never ends a text: what lines() does with it changed between
\* releases of the standard library.)
RECURSIVE JoinLines(_, _, _)
JoinLines(ls, eol, final) ==
    IF ls = <<>> THEN <<>>
    ELSE IF Len(ls) = 1 THEN Head(ls) \o (IF final THEN eol ELSE <<>>)
    ELSE Head(ls) \o eol \o JoinLines(Tail(ls), eol, final)

RemotesYabba ==
    <<"r", "e", "m", "o", "t", "e", "s", "/", "y", "a", "b", "b", "a", "/">>

\* One line of "git branch -a"-like output: any gutter of spaces and stars, a
\* remote prefix or none, and a body.
BodyAlphabet == {"a", "x", "0", "/", "U+0663"}

\* References under remotes that are not origin, and the same under origin.
OtherRemoteRefs ==
    { <<"r", "e", "m", "o", "t", "e", "s", "/", "y", "a", "b", "b", "a", "-",
        "d", "a", "b", "b", "a", "-", "d", "o", "o", "/",
        "f", "i", "r", "s", "t", "-", "p", "r", "/", "0">>,
      RemotesYabba \o <<"d", "a", "b", "b", "a", "/", "d", "o", "o", "/",
                        "t", "h", "i", "r", "d", "/", "0">>,
      RemotesOrigin \o <<"f", "i", "r", "s", "t", "-", "p", "r", "/", "0">> }

RefLines ==
    { g \o r \o b : g \in Strings({" ", "*"}, MaxGutter),
                    r \in {<<>>, RemotesOrigin, RemotesYabba},
                    b \in Strings(BodyAlphabet, MaxBodyLen) }
        \cup { g \o r : g \in Strings({" ", "*"}, MaxGutter), r \in OtherRemoteRefs }

\* Lines to build texts of several lines from.
SampleRefLines ==
    { <<" ", " ">> \o RemotesOrigin \o <<"a", "x", "/", "0">>,
      <<" ", " ">> \o RemotesOrigin \o <<"x", "/", "a", "/", "0", "a">>,
      <<" ", " ">> \o RemotesOrigin \o <<"x">>,
      <<" ", " ">> \o RemotesYabba \o <<"x", "/", "0">>,
      <<"*", " ">> \o Trunk,
      <<>> }

\* One line of "git branch --merged"-like output.
MergedLines ==
    { g \o n \o w : g \in Strings({" ", "*"}, MaxGutter),
                    n \in {<<>>, Trunk, <<"t">>, Trunk \o <<"s">>, <<"o", "n", "e">>},
                    w \in Strings({" ", "\t"}, MaxTrail) }

SampleMergedLines ==
    { <<" ", " ", "o", "n", "e">>,
      <<"*", " ", "t", "w", "o">>,
      <<" ", " ">> \o Trunk,
      <<"*", " ">> \o Trunk,
      <<" ", " ", "t", "h", "r", "e", "e">>,
      <<>> }

\* Every text of one line of `rich`, and every text of two to MaxLines lines
\* of `sample`; with either line ending, closed by a line ending or not.
Texts(rich, sample) ==
    { JoinLines(ls, eol, final) :
        ls \in { <<l>> : l \in rich }
                 \cup UNION { [1..k -> sample] : k \in 2..MaxLines },
        eol \in {LF, CRLF},
        final \in BOOLEAN }

---------------------------------------------------------------------------
(* SpecPrNames: extract_pr_names on a listing text.                        *)

InitPrNames ==
    /\ pc = "start"
    /\ branches \in Texts(RefLines, SampleRefLines)
    /\ pr_names = <<>>
    /\ deletable = <<>>
    /\ IdleButExtract

ExtractPrNames ==
    /\ pc = "start"
    /\ pr_names' = extract_pr_names(branches)
    /\ pc' = "done"
    /\ UNCHANGED <<branches, deletable, othersExtract>>

NextPrNames == ExtractPrNames

SpecPrNames == InitPrNames /\ [][NextPrNames]_vars

\* The lines C1 selects: the remote prefix after the gutter (the gutter read as
\* the pattern reads it), and a final path segment that is a non-empty run of
\* the hex digits 0-9 and a-f.
ClaimSelected(line) ==
    /\ begins_with_remote_ref_is_match(line)
    /\ FinalSegment(line) # <<>>
    /\ AllIn(FinalSegment(line), AsciiHexLower)

\* The PR name C1 gives a selected line: the text strictly between the remote
\* prefix and the trailing "/<hex>".
ClaimName(line) ==
    SubSeq(line, begins_with_remote_ref_end(line) + 1,
           Len(line) - Len(FinalSegment(line)) - 1)

RECURSIVE ClaimPrNamesOf(_)
ClaimPrNamesOf(ls) ==
    IF ls = <<>> THEN <<>>
    ELSE (IF ClaimSelected(Head(ls)) THEN <<ClaimName(Head(ls))>> ELSE <<>>)
             \o ClaimPrNamesOf(Tail(ls))

\* C1: extract_pr_names returns, in line order and one entry per selected
\* line, the PR name of exactly the lines that carry "remotes/origin/" after
\* the gutter and end in "/" and a non-empty run of hex digits; the PR name is
\* the text strictly between that prefix and that suffix.
C1_PrNames == pc = "done" => pr_names = ClaimPrNamesOf(lines(branches))

\* The listing is the one line `ref`, behind a gutter of white space or none.
OnlyLine(ref) ==
    /\ Len(lines(branches)) = 1
    /\ trim_start(lines(branches)[1]) = ref

\* C13 as stated: references of remotes other than origin are recognized:
\* the line remotes/yabba-dabba-doo/first-pr/0 yields the PR name first-pr,
\* and remotes/yabba/dabba/doo/third/0 yields dabba/doo/third.
C13_Original ==
    pc = "done" =>
        /\ OnlyLine(<<"r", "e", "m", "o", "t", "e", "s", "/", "y", "a", "b", "b",
                      "a", "-", "d", "a", "b", "b", "a", "-", "d", "o", "o", "/",
                      "f", "i", "r", "s", "t", "-", "p", "r", "/", "0">>)
               => pr_names = << <<"f", "i", "r", "s", "t", "-", "p", "r">> >>
        /\ OnlyLine(RemotesYabba \o <<"d", "a", "b", "b", "a", "/", "d", "o", "o",
                                      "/", "t", "h", "i", "r", "d", "/", "0">>)
               => pr_names = << <<"d", "a", "b", "b", "a", "/", "d", "o", "o", "/",
                                  "t", "h", "i", "r", "d">> >>

\* The line, after its gutter of spaces and stars, names a reference of the
\* remote origin.
OriginLine(line) ==
    LET gutter == { p \in 1..Len(line) : line[p] \notin {" ", "*"} }
    IN  /\ gutter # {}
        /\ HasAt(line, CHOOSE p \in gutter : \A q \in gutter : p <= q, RemotesOrigin)

\* C13 as amended: extract_pr_names recognizes references of the remote
\* origin only: it returns at most one name per line that names a reference
\* under remotes/origin/, so a listing of references of other remotes, such
\* as remotes/yabba-dabba-doo/first-pr/0, yields no PR name.
C13_OriginOnly ==
    pc = "done" => Len(pr_names) <= Len(SelectSeq(lines(branches), OriginLine))

\* The first line of the claim, indented as git indents it, yields nothing.
C13_Witness ==
    /\ pc = "done"
    /\ OnlyLine(<<"r", "e", "m", "o", "t", "e", "s", "/", "y", "a", "b", "b",
                  "a", "-", "d", "a", "b", "b", "a", "-", "d", "o", "o", "/",
                  "f", "i", "r", "s", "t", "-", "p", "r", "/", "0">>)
    /\ Len(lines(branches)[1]) = 36
    /\ pr_names = <<>>

---------------------------------------------------------------------------
(* SpecDeletable: extract_deletable_branches on a merged-branches listing. *)

InitDeletable ==
    /\ pc = "start"
    /\ branches \in Texts(MergedLines, SampleMergedLines)
    /\ pr_names = <<>>
    /\ deletable = <<>>
    /\ IdleButExtract

ExtractDeletableBranches ==
    /\ pc = "start"
    /\ deletable' = extract_deletable_branches(branches)
    /\ pc' = "done"
    /\ UNCHANGED <<branches, pr_names, othersExtract>>

NextDeletable == ExtractDeletableBranches

SpecDeletable == InitDeletable /\ [][NextDeletable]_vars

\* `line` without the white space at its two ends.
Strip(line) ==
    LET inked == { p \in 1..Len(line) : line[p] \notin WhiteSpace }
    IN  IF inked = {} THEN <<>>
        ELSE SubSeq(line,
                    CHOOSE p \in inked : \A q \in inked : p <= q,
                    CHOOSE p \in inked : \A q \in inked : q <= p)

\* The line carries the current-branch marker: it begins with "*".
Marked(line) == line # <<>> /\ line[1] = "*"

RECURSIVE ClaimDeletableOf(_)
ClaimDeletableOf(ls) ==
    IF ls = <<>> THEN <<>>
    ELSE (IF ~Marked(Head(ls)) /\ Strip(Head(ls)) # Trunk
          THEN <<Strip(Head(ls))>> ELSE <<>>)
             \o ClaimDeletableOf(Tail(ls))

\* C3: extract_deletable_branches returns, in line order, every line without
\* its leading and trailing white space, except the line marked with "*" and
\* the lines whose trimmed text is "trunk", wherever they stand; trunk is never
\* in the result, and the listing itself is left as it was.
C3_Deletable ==
    pc = "done" =>
        /\ deletable = ClaimDeletableOf(lines(branches))
        /\ \A i \in 1..Len(deletable) : deletable[i] # Trunk

\* The listing of the test identify_branches_for_deletion.
C3_Witness ==
    /\ pc = "done"
    /\ branches = <<" ", " ", "o", "n", "e", "\n", "*", " ", "t", "w", "o", "\n",
                    " ", " ", "t", "r", "u", "n", "k", "\n",
                    " ", " ", "t", "h", "r", "e", "e", "\n">>
    /\ deletable = << <<"o", "n", "e">>, <<"t", "h", "r", "e", "e">> >>

---------------------------------------------------------------------------
(* SpecListOf: parse a text into a ListOf<T>, then call next() on it.      *)

U8Alphabet == {"1", "5", "x", "+"}

U8Lines == Strings(U8Alphabet, MaxBodyLen)

\* The lines of the module's tests, and some that do not parse.
SampleU8Lines ==
    { <<"1">>, <<"2">>, <<"4">>, <<"t", "h", "r", "e", "e">>, <<>>, <<"2", "5", "6">> }

InitListOf ==
    /\ pc = "start"
    /\ record_type \in {"u8", "LocalBranch"}
    /\ source \in IF record_type = "u8" THEN Texts(U8Lines, SampleU8Lines)
                  ELSE Texts(MergedLines, SampleMergedLines)
    /\ storage = <<>>
    /\ yielded = <<>>
    /\ nones = 0
    /\ IdleButListOf

\* source.parse::<ListOf<T>>(): always Ok (the error type is Infallible).
ListOfFromStr ==
    /\ pc = "start"
    /\ storage' = ListOf_from_str(record_type, source)
    /\ pc' = "iter"
    /\ UNCHANGED <<source, record_type, yielded, nones, othersListOf>>

\* next(): self.storage.pop().
ListOfNext ==
    /\ pc = "iter"
    /\ \/ /\ storage # <<>>
          /\ yielded' = Append(yielded, Last(storage))
          /\ storage' = SubSeq(storage, 1, Len(storage) - 1)
          /\ UNCHANGED nones
       \/ /\ storage = <<>>
          /\ nones < MaxNones
          /\ nones' = nones + 1
          /\ UNCHANGED <<storage, yielded>>
    /\ UNCHANGED <<pc, source, record_type, othersListOf>>

NextListOf == ListOfFromStr \/ ListOfNext

SpecListOf == InitListOf /\ [][NextListOf]_vars

\* The records of the lines that parse, first line first.
RECURSIVE RecordsOf(_, _)
RecordsOf(T, ls) ==
    IF ls = <<>> THEN <<>>
    ELSE LET r == parse(T, ls[Len(ls)])
         IN  RecordsOf(T, SubSeq(ls, 1, Len(ls) - 1)) \o r

\* C10: parsing a text into a ListOf never fails; the successive next() calls
\* yield the records of the lines that parsed, in line order, each once (what
\* has been yielded, followed by what is still stored taken from the top, is
\* always that list); and once next() has returned None everything has been
\* yielded and nothing is stored, so every later call returns None too.
C10_ListOf ==
    /\ pc = "iter" =>
          yielded \o Reverse(storage) = RecordsOf(record_type, lines(source))
    /\ nones > 0 =>
          /\ storage = <<>>
          /\ yielded = RecordsOf(record_type, lines(source))

\* The text of the test can_iterate_list_of_numbers, iterated to the end.
C10_Witness ==
    /\ record_type = "u8"
    /\ source = <<"1", "\n", "2", "\n", "t", "h", "r", "e", "e", "\n", "4">>
    /\ yielded = <<1, 2, 4>>
    /\ nones = MaxNones

---------------------------------------------------------------------------
(* SpecExec: one call of one operation, against a program that may fail to *)
(* start, or exit with any status after writing any output.                *)

\* What Command::status() comes to: the output goes to the console.
StatusOutcomes ==
    { [launched |-> FALSE, error |-> e] : e \in IoErrors }
        \cup { [launched |-> TRUE, status |-> c] : c \in 0..MaxExit }

BranchArgs == { <<"o", "n", "e">>, <<"p", "r", "/", "0", "a">> }

ExecArgs == { <<>>, <<S_a>>, <<S_rev_parse, S_HEAD>> }

InitExec ==
    /\ pc = "idle"
    /\ IdleExec
    /\ IdleButExec

\* The call of operation o launched the program once with the arguments a,
\* the launch came to out, and the operation returned r.
Returned(o, a, out, r) ==
    /\ op' = o
    /\ argv' = a
    /\ outcome' = out
    /\ result' = r
    /\ launches' = launches + 1
    /\ pc' = "returned"
    /\ UNCHANGED othersExec

CallVersion ==
    /\ pc = "idle"
    /\ \E out \in Outcomes :
           Returned("version", version_argv(Git_new), out, version(out))

CallFetchPrune ==
    /\ pc = "idle"
    /\ \E out \in StatusOutcomes :
           Returned("fetch_prune", fetch_prune_argv(Git_new), out, fetch_prune(out))

CallAllBranches ==
    /\ pc = "idle"
    /\ \E out \in Outcomes :
           Returned("all_branches", all_branches_argv(Git_new), out, all_branches(out))

CallMergedBranches ==
    /\ pc = "idle"
    /\ \E out \in Outcomes :
           Returned("merged_branches", merged_branches_argv(Git_new), out,
                    merged_branches(out))

CallRevParseHead ==
    /\ pc = "idle"
    /\ \E out \in Outcomes :
           Returned("rev_parse_head", rev_parse_head_argv(Git_new), out,
                    rev_parse_head(out))

CallCreateBranch ==
    /\ pc = "idle"
    /\ \E out \in StatusOutcomes, b \in BranchArgs :
           Returned("create_branch", create_branch_argv(Git_new, b), out,
                    create_branch(out))

CallDeleteBranch ==
    /\ pc = "idle"
    /\ \E out \in StatusOutcomes, b \in BranchArgs :
           Returned("delete_branch", delete_branch_argv(Git_new, b), out,
                    delete_branch(out))

CallPushUpstream ==
    /\ pc = "idle"
    /\ \E out \in StatusOutcomes, b \in BranchArgs :
           Returned("push_upstream", push_upstream_argv(Git_new, b), out,
                    push_upstream(out))

\* Command::new("git").capture_nothing(args)
CallCaptureNothing ==
    /\ pc = "idle"
    /\ \E out \in StatusOutcomes, args \in ExecArgs :
           Returned("capture_nothing", Command_args(Command_new(S_git), args).args,
                    out, capture_nothing(out))

\* Command::new("git").capture_stdout(args)
CallCaptureStdout ==
    /\ pc = "idle"
    /\ \E out \in Outcomes, args \in ExecArgs :
           Returned("capture_stdout", Command_args(Command_new(S_git), args).args,
                    out, capture_stdout(out))

NextExec ==
    \/ CallVersion \/ CallFetchPrune \/ CallAllBranches \/ CallMergedBranches
    \/ CallRevParseHead \/ CallCreateBranch \/ CallDeleteBranch
    \/ CallPushUpstream \/ CallCaptureNothing \/ CallCaptureStdout

SpecExec == InitExec /\ [][NextExec]_vars

\* C7: an operation returns Ok only when the program was launched and exited
\* with status 0; when the program could not be started it returns the Io
\* error of the launch; when the program ran and exited with another status it
\* returns the Exit error with that status; and a call launches the program
\* once.
C7_Errors ==
    pc = "returned" =>
        /\ result.ok <=> (outcome.launched /\ outcome.status = 0)
        /\ ~outcome.launched => result = Err(Io(outcome.error))
        /\ (outcome.launched /\ outcome.status # 0) =>
               result = Err(Exit(outcome.status))
        /\ launches = 1

C7_Witness ==
    /\ pc = "returned"
    /\ op = "delete_branch"
    /\ outcome = [launched |-> TRUE, status |-> 2]
    /\ result = Err(Exit(2))

\* The decoded output without one newline sequence ("\n" or "\r\n") at its end.
WithoutOneNewline(text) ==
    IF Len(text) >= 2 /\ SubSeq(text, Len(text) - 1, Len(text)) = CRLF
    THEN SubSeq(text, 1, Len(text) - 2)
    ELSE IF text # <<>> /\ Last(text) = "\n" THEN SubSeq(text, 1, Len(text) - 1)
    ELSE text

Capturing == {"capture_stdout", "rev_parse_head"}

\* C9 as written: on success the captured output is the program's output with
\* exactly one trailing newline sequence removed, the rest unchanged.
C9_Original ==
    (pc = "returned" /\ op \in Capturing /\ result.ok) =>
        result.value = WithoutOneNewline(from_utf8_lossy(outcome.stdout))

\* C9 (amended): on success the captured output is the program's decoded
\* output with all of its trailing white space removed: it is the longest
\* prefix of the output that does not end in a white-space character.
C9_TrimEnd ==
    (pc = "returned" /\ op \in Capturing /\ result.ok) =>
        LET text == from_utf8_lossy(outcome.stdout)
            kept == Len(result.value)
        IN  /\ kept <= Len(text)
            /\ result.value = SubSeq(text, 1, kept)
            /\ \A i \in (kept + 1)..Len(text) : text[i] \in WhiteSpace
            /\ kept > 0 => text[kept] \notin WhiteSpace

\* "a", a blank and a newline written; "a" returned.
C9_Witness ==
    /\ pc = "returned"
    /\ op = "rev_parse_head"
    /\ outcome = [launched |-> TRUE, status |-> 0, stdout |-> <<"a", " ", "\n">>]
    /\ result = Ok(<<"a">>)

---------------------------------------------------------------------------
(* SpecCommand: capture_nothing and capture_stdout called again and again, *)
(* with the same args, on one process::Command whose program is            *)
(* deterministic: what it does depends on its argument vector alone.       *)

S_echo == <<"e", "c", "h", "o">>
S_true == <<"t", "r", "u", "e">>
S_false == <<"f", "a", "l", "s", "e">>
S_missing == <<"m", "i", "s", "s", "i", "n", "g">>

Programs == {S_echo, S_true, S_false, S_missing}

\* The arguments separated by blanks.
RECURSIVE JoinArgs(_)
JoinArgs(args) ==
    IF args = <<>> THEN <<>>
    ELSE IF Len(args) = 1 THEN Head(args)
    ELSE Head(args) \o <<" ">> \o JoinArgs(Tail(args))

\* What launching the Command comes to: echo writes its arguments and a
\* newline, true writes nothing, false exits with status 1, and a program
\* that does not exist cannot be started.
Launch(cmd) ==
    IF cmd.program = S_echo
    THEN [launched |-> TRUE, status |-> 0, stdout |-> JoinArgs(cmd.args) \o LF]
    ELSE IF cmd.program = S_true
    THEN [launched |-> TRUE, status |-> 0, stdout |-> <<>>]
    ELSE IF cmd.program = S_false
    THEN [launched |-> TRUE, status |-> 1, stdout |-> <<>>]
    ELSE [launched |-> FALSE, error |-> "NotFound"]

InitCommand ==
    /\ pc = "idle"
    /\ command \in { Command_new(p) : p \in Programs }
    /\ call_args \in ExecArgs
    /\ history = <<>>
    /\ IdleButCommand

\* command.capture_nothing(&call_args): self.args(args) changes the Command,
\* status() launches it as it then is.
CommandCaptureNothing ==
    /\ Len(history) < MaxCalls
    /\ command' = Command_args(command, call_args)
    /\ history' = Append(history,
                         [op |-> "capture_nothing", argv |-> command'.args,
                          result |-> capture_nothing(Launch(command'))])
    /\ UNCHANGED <<pc, call_args, othersCommand>>

\* command.capture_stdout(&call_args)
CommandCaptureStdout ==
    /\ Len(history) < MaxCalls
    /\ command' = Command_args(command, call_args)
    /\ history' = Append(history,
                         [op |-> "capture_stdout", argv |-> command'.args,
                          result |-> capture_stdout(Launch(command'))])
    /\ UNCHANGED <<pc, call_args, othersCommand>>

NextCommand == CommandCaptureNothing \/ CommandCaptureStdout

SpecCommand == InitCommand /\ [][NextCommand]_vars

\* C8: in a run of capture_stdout calls made with the same args on the same
\* executor against a deterministic program, every call launches the program
\* with the argument vector of the first call and returns what the first call
\* returned.
C8_Idempotent ==
    \A k \in 1..Len(history) :
        (\A j \in 1..k : history[j].op = "capture_stdout") =>
            /\ history[k].argv = history[1].argv
            /\ history[k].result = history[1].result

---------------------------------------------------------------------------
(* The repository the drivers run in, as far as they see it.               *)

\* The local branch names of the model besides trunk, in the order git lists
\* branches (sorted by name).
BranchOrder ==
    << <<"d", "e", "v">>, <<"o", "n", "e">>, <<"p", "r", "/", "0", "a">>, Trunk,
       <<"t", "w", "o">>, <<"z", "e", "d">> >>

BranchNames == { BranchOrder[i] : i \in 1..Len(BranchOrder) } \ {Trunk}

\* A checked-out branch that is not merged into trunk: it is in no listing.
Unmerged == <<"w", "i", "p">>

\* The output of "git branch --merged trunk": trunk and the merged branches
\* that exist, one to a line in name order; two columns of gutter, "* " on the
\* line of the branch that is checked out and blanks on the others.
RECURSIVE ListingOf(_, _, _)
ListingOf(order, present, current) ==
    IF order = <<>> THEN <<>>
    ELSE (IF Head(order) \in present
          THEN (IF Head(order) = current THEN <<"*", " ">> ELSE <<" ", " ">>)
                   \o Head(order) \o LF
          ELSE <<>>)
             \o ListingOf(Tail(order), present, current)

MergedListing == ListingOf(BranchOrder, local_branches \cup {Trunk}, head)

\* What a launch that does not end well comes to.
Failures ==
    { [launched |-> FALSE, error |-> e] : e \in IoErrors }
        \cup { [launched |-> TRUE, status |-> c, stdout |-> <<>>] : c \in 1..MaxExit }

\* The exit status of a main that returns r: 0 for Ok(()), 1 for an Err.
ExitOf(r) == IF r.ok THEN 0 ELSE 1

Call(o, a, r) == [op |-> o, argv |-> a, result |-> r]

---------------------------------------------------------------------------
(* SpecClean: bin/git-pr-clean.rs.                                         *)

\* Git::merged_branches as main uses its value: the text of the listing,
\* handed to extract_deletable_branches.
merged_branches_listing(out) ==
    IF ~out.launched THEN Err(GitError_from(out.error))
    ELSE IF ~assert_success(out.status).ok THEN assert_success(out.status)
    ELSE Ok(from_utf8_lossy(out.stdout))

InitClean ==
    /\ pc = "start"
    /\ merged \in { m \in SUBSET BranchNames : Cardinality(m) <= MaxBranches }
    /\ local_branches = merged
    /\ head \in merged \cup {Trunk, Unmerged}
    /\ IdleDriver
    /\ IdleButDrivers

\* let merged_branches = git.merged_branches()?; and the for loop's
\* extract_deletable_branches(&merged_branches).
CleanMergedBranches ==
    /\ pc = "start"
    /\ \E out \in Failures
              \cup {[launched |-> TRUE, status |-> 0, stdout |-> MergedListing]} :
           LET r == merged_branches_listing(out)
           IN  /\ calls' = Append(calls,
                                  Call("merged_branches",
                                       merged_branches_argv(Git_new), r))
               /\ IF r.ok
                  THEN /\ todo' = extract_deletable_branches(r.value)
                       /\ pc' = "loop"
                       /\ UNCHANGED exit_code
                  ELSE /\ pc' = "exited"
                       /\ exit_code' = ExitOf(r)
                       /\ UNCHANGED todo
    /\ UNCHANGED <<cli_arg, status, branch_name, remotes_to_delete,
                   locals_to_delete, varsRepo, othersDrivers>>

\* A loop that goes on to the next branch after a failed delete_branch and
\* leaves the error behind.
CleanDeleteBranch_Continue ==
    /\ pc = "loop"
    /\ todo # <<>>
    /\ \E out \in StatusOutcomes :
           LET r == delete_branch(out)
           IN  /\ calls' = Append(calls,
                                  Call("delete_branch",
                                       delete_branch_argv(Git_new, Head(todo)), r))
               /\ local_branches' =
                      IF r.ok THEN local_branches \ {Head(todo)} ELSE local_branches
    /\ todo' = Tail(todo)
    /\ UNCHANGED <<pc, exit_code, cli_arg, status, branch_name, remotes_to_delete,
                   locals_to_delete, head, merged, othersDrivers>>

\* One turn of the loop: git.delete_branch(&branch)?;  git deletes the branch
\* when it exits with status 0.
CleanDeleteBranch ==
    /\ pc = "loop"
    /\ todo # <<>>
    /\ \E out \in StatusOutcomes :
           LET r == delete_branch(out)
           IN  /\ calls' = Append(calls,
                                  Call("delete_branch",
                                       delete_branch_argv(Git_new, Head(todo)), r))
               /\ IF r.ok
                  THEN /\ local_branches' = local_branches \ {Head(todo)}
                       /\ todo' = Tail(todo)
                       /\ UNCHANGED <<pc, exit_code>>
                  ELSE /\ pc' = "exited"
                       /\ exit_code' = ExitOf(r)
                       /\ UNCHANGED <<local_branches, todo>>
    /\ UNCHANGED <<cli_arg, status, branch_name, remotes_to_delete,
                   locals_to_delete, head, merged, othersDrivers>>

\* The loop is over: Ok(()).
CleanFinish ==
    /\ pc = "loop"
    /\ todo = <<>>
    /\ pc' = "exited"
    /\ exit_code' = ExitOf(Ok(<<>>))
    /\ UNCHANGED <<cli_arg, calls, todo, status, branch_name, remotes_to_delete,
                   locals_to_delete, varsRepo, othersDrivers>>

NextClean == CleanMergedBranches \/ CleanDeleteBranch \/ CleanFinish

SpecClean == InitClean /\ [][NextClean]_vars

\* The branches the delete_branch calls made so far were given, in call order.
DeleteArgs ==
    LET ds == SelectSeq(calls, LAMBDA c : c.op = "delete_branch")
    IN  [i \in 1..Len(ds) |-> ds[i].argv[Len(ds[i].argv)]]

\* The merged branches other than trunk and the checked-out one, in listing
\* order.
ToBeCleaned ==
    SelectSeq(BranchOrder, LAMBDA b : b \in merged /\ b # Trunk /\ b # head)

Deleted ==
    { c.argv[Len(c.argv)] :
        c \in { calls[i] : i \in { j \in 1..Len(calls) :
                                      /\ calls[j].op = "delete_branch"
                                      /\ calls[j].result.ok } } }

\* C16: in a run of pr-clean a delete_branch call that fails is the last call
\* of the run: no delete_branch is called for the deletable branches that
\* remain, and the run ends with exit status 1; the branches deleted before
\* the failure stay deleted, and no other branch is.
C16_StopAtFailure ==
    /\ \A i \in 1..Len(calls) :
           ~calls[i].result.ok =>
               /\ i = Len(calls)
               /\ pc = "exited"
               /\ exit_code = 1
    /\ local_branches = merged \ Deleted

\* The second of three deletions failed: the first branch is gone, the
\* third was never tried.
C16_Witness ==
    /\ pc = "exited"
    /\ exit_code = 1
    /\ Len(ToBeCleaned) = 3
    /\ Len(DeleteArgs) = 2
    /\ calls[2].result.ok
    /\ ~calls[3].result.ok
    /\ local_branches = merged \ {ToBeCleaned[1]}

---------------------------------------------------------------------------
(* SpecCreate: bin/git-pr-create.rs.                                       *)

\* PR names given on the command line.
PrNameArgs == { <<"o", "n", "e">>, <<"a", "/", "b">>, <<>> }

\* What "git rev-parse --short HEAD" may write.
HashOutputs ==
    { <<"1", "2", "3", "4", "5", "6", "7", "\n">>, <<"0", "a", "\r", "\n">>,
      <<"f", "f">>, <<>> }

\* format!("{}/{}", hash, name): the two arguments in the wrong order.
format_branch_name_Swapped(pr_name, hash) == hash \o <<"/">> \o pr_name

\* format!("{}/{}", name, hash)
format_branch_name(pr_name, hash) == pr_name \o <<"/">> \o hash

InitCreate ==
    /\ pc = "start"
    /\ cli_arg \in {<<>>} \cup { <<n>> : n \in PrNameArgs }
    /\ calls = <<>> /\ todo = <<>> /\ status = <<>> /\ branch_name = <<>>
    /\ remotes_to_delete = <<>> /\ locals_to_delete = <<>> /\ exit_code = 0
    /\ IdleRepo
    /\ IdleButDrivers

\* match args().nth(1): without a name, the usage message and exit(1).
CreateStart ==
    /\ pc = "start"
    /\ IF cli_arg = <<>>
       THEN pc' = "exited" /\ exit_code' = 1
       ELSE pc' = "rev_parse_head" /\ UNCHANGED exit_code
    /\ UNCHANGED <<cli_arg, calls, todo, status, branch_name, remotes_to_delete,
                   locals_to_delete, varsRepo, othersDrivers>>

\* let hash = git.rev_parse_head()?; and the format! of the branch name.
CreateRevParseHead ==
    /\ pc = "rev_parse_head"
    /\ \E out \in Failures
              \cup { [launched |-> TRUE, status |-> 0, stdout |-> o] :
                         o \in HashOutputs } :
           LET r == rev_parse_head(out)
           IN  /\ calls' = Append(calls,
                                  Call("rev_parse_head",
                                       rev_parse_head_argv(Git_new), r))
               /\ IF r.ok
                  THEN /\ branch_name' = format_branch_name(cli_arg[1], r.value)
                       /\ pc' = "create_branch"
                       /\ UNCHANGED exit_code
                  ELSE /\ pc' = "exited"
                       /\ exit_code' = ExitOf(r)
                       /\ UNCHANGED branch_name
    /\ UNCHANGED <<cli_arg, todo, status, remotes_to_delete, locals_to_delete,
                   varsRepo, othersDrivers>>

\* git.create_branch(&branch_name)?;
CreateBranch ==
    /\ pc = "create_branch"
    /\ \E out \in StatusOutcomes :
           LET r == create_branch(out)
           IN  /\ calls' = Append(calls,
                                  Call("create_branch",
                                       create_branch_argv(Git_new, branch_name), r))
               /\ IF r.ok
                  THEN pc' = "push_upstream" /\ UNCHANGED exit_code
                  ELSE pc' = "exited" /\ exit_code' = ExitOf(r)
    /\ UNCHANGED <<cli_arg, todo, status, branch_name, remotes_to_delete,
                   locals_to_delete, varsRepo, othersDrivers>>

\* git.push_upstream(&branch_name)?; and Ok(()).
CreatePushUpstream ==
    /\ pc = "push_upstream"
    /\ \E out \in StatusOutcomes :
           LET r == push_upstream(out)
           IN  /\ calls' = Append(calls,
                                  Call("push_upstream",
                                       push_upstream_argv(Git_new, branch_name), r))
               /\ pc' = "exited"
               /\ exit_code' = ExitOf(r)
    /\ UNCHANGED <<cli_arg, todo, status, branch_name, remotes_to_delete,
                   locals_to_delete, varsRepo, othersDrivers>>

NextCreate == CreateStart \/ CreateRevParseHead \/ CreateBranch \/ CreatePushUpstream

SpecCreate == InitCreate /\ [][NextCreate]_vars

\* The operations called so far, in call order.
CalledOps == [i \in 1..Len(calls) |-> calls[i].op]

CreateOrder == <<"rev_parse_head", "create_branch", "push_upstream">>

\* The last argument of the i-th call.
LastArg(i) == calls[i].argv[Len(calls[i].argv)]

\* C6: pr-create calls rev_parse_head, then create_branch, then push_upstream,
\* each only after every earlier call succeeded; create_branch and
\* push_upstream are given the same name, <name>/<hash>, the hash being what
\* rev_parse_head returned; a call that fails is the last one and the exit
\* status is then not 0; the exit status is 0 only after all three succeeded;
\* and without an argument nothing is called and the exit status is 1.
C6_Create ==
    /\ Len(calls) <= 3
    /\ CalledOps = SubSeq(CreateOrder, 1, Len(calls))
    /\ \A i \in 1..Len(calls) : ~calls[i].result.ok =>
           (i = Len(calls) /\ pc = "exited" /\ exit_code # 0)
    /\ \A i \in 2..Len(calls) :
           LastArg(i) = cli_arg[1] \o <<"/">> \o calls[1].result.value
    /\ (pc = "exited" /\ exit_code = 0) =>
           (Len(calls) = 3 /\ \A i \in 1..3 : calls[i].result.ok)
    /\ cli_arg = <<>> => (calls = <<>> /\ (pc = "exited" => exit_code = 1))

\* "git pr-create one" at HEAD 1234567, every call succeeding.
C6_Witness ==
    /\ pc = "exited"
    /\ exit_code = 0
    /\ cli_arg = << <<"o", "n", "e">> >>
    /\ Len(calls) = 3
    /\ LastArg(3) = <<"o", "n", "e", "/", "1", "2", "3", "4", "5", "6", "7">>

---------------------------------------------------------------------------
(* SpecAbandon: bin/git-pr-abandon.rs.  main is in the source; the library *)
(* functions it calls besides fetch_prune are not, and are modelled by     *)
(* what they may return.                                                   *)

\* What a Git operation that returns Result<(), GitError> may return.
UnitResults == { Ok(<<>>), Err(Io("NotFound")), Err(Exit(1)) }

\* Git::push_delete(name) and Git::force_delete_branch(name): nothing, or a
\* process/exit error.
push_delete_returns == UnitResults
force_delete_branch_returns == UnitResults

\* The branches a filter may select: any list of up to MaxDeletes names.
BranchLists == Strings({ <<"x", "/", "0", "a">>, <<"x", "/", "1", "b">> }, MaxDeletes)

\* Git::all_remote_branches()? followed by filter_remote_branches(name, ..):
\* an error, or the remote branches whose PR name is `name`.
remote_branches_returns ==
    { Err(Io("NotFound")), Err(Exit(1)) } \cup { Ok(l) : l \in BranchLists }

\* Git::all_local_branches()? followed by filter_local_branches(name, ..).
local_branches_returns ==
    { Err(Io("NotFound")), Err(Exit(1)) } \cup { Ok(l) : l \in BranchLists }

\* status = r.err(): a success puts None back.
status_after_Overwritten(st, r) == IF ~r.ok THEN <<r.err>> ELSE <<>>

\* if let Err(error) = r { status = Some(error); }
status_after(st, r) == IF ~r.ok THEN <<r.err>> ELSE st

InitAbandon ==
    /\ pc = "start"
    /\ cli_arg \in {<<>>, << <<"x">> >>}
    /\ calls = <<>> /\ todo = <<>> /\ status = <<>> /\ branch_name = <<>>
    /\ remotes_to_delete = <<>> /\ locals_to_delete = <<>> /\ exit_code = 0
    /\ IdleRepo
    /\ IdleButDrivers

\* match args().nth(1): without a name, the usage message and exit(1).
AbandonStart ==
    /\ pc = "start"
    /\ IF cli_arg = <<>>
       THEN pc' = "exited" /\ exit_code' = 1
       ELSE pc' = "fetch_prune" /\ UNCHANGED exit_code
    /\ UNCHANGED <<cli_arg, calls, todo, status, branch_name, remotes_to_delete,
                   locals_to_delete, varsRepo, othersDrivers>>

\* git.fetch_prune()?; let mut status = None;
AbandonFetchPrune ==
    /\ pc = "fetch_prune"
    /\ \E out \in StatusOutcomes :
           LET r == fetch_prune(out)
           IN  /\ calls' = Append(calls,
                                  Call("fetch_prune", fetch_prune_argv(Git_new), r))
               /\ IF r.ok
                  THEN pc' = "all_remote_branches" /\ UNCHANGED exit_code
                  ELSE pc' = "exited" /\ exit_code' = ExitOf(r)
    /\ status' = <<>>
    /\ UNCHANGED <<cli_arg, todo, branch_name, remotes_to_delete,
                   locals_to_delete, varsRepo, othersDrivers>>

\* let all_remote_branches = git.all_remote_branches()?; and the filter.
AbandonAllRemoteBranches ==
    /\ pc = "all_remote_branches"
    /\ \E r \in remote_branches_returns :
           /\ calls' = Append(calls, Call("all_remote_branches", <<>>, r))
           /\ IF r.ok
              THEN /\ remotes_to_delete' = r.value
                   /\ todo' = r.value
                   /\ pc' = "push_delete"
                   /\ UNCHANGED exit_code
              ELSE /\ pc' = "exited"
                   /\ exit_code' = ExitOf(r)
                   /\ UNCHANGED <<remotes_to_delete, todo>>
    /\ UNCHANGED <<cli_arg, status, branch_name, locals_to_delete, varsRepo,
                   othersDrivers>>

\* One turn of the first loop: git.push_delete(&branch), the error kept.
AbandonPushDelete ==
    /\ pc = "push_delete"
    /\ todo # <<>>
    /\ \E r \in push_delete_returns :
           /\ calls' = Append(calls, Call("push_delete", <<Head(todo)>>, r))
           /\ status' = status_after(status, r)
    /\ todo' = Tail(todo)
    /\ UNCHANGED <<pc, cli_arg, branch_name, remotes_to_delete, locals_to_delete,
                   exit_code, varsRepo, othersDrivers>>

\* The first loop is over: let local_branches = git.all_local_branches()?;
\* and the filter.
AbandonAllLocalBranches ==
    /\ pc = "push_delete"
    /\ todo = <<>>
    /\ \E r \in local_branches_returns :
           /\ calls' = Append(calls, Call("all_local_branches", <<>>, r))
           /\ IF r.ok
              THEN /\ locals_to_delete' = r.value
                   /\ todo' = r.value
                   /\ pc' = "force_delete_branch"
                   /\ UNCHANGED exit_code
              ELSE /\ pc' = "exited"
                   /\ exit_code' = ExitOf(r)
                   /\ UNCHANGED <<locals_to_delete, todo>>
    /\ UNCHANGED <<cli_arg, status, branch_name, remotes_to_delete, varsRepo,
                   othersDrivers>>

\* One turn of the second loop: git.force_delete_branch(&branch).
AbandonForceDeleteBranch ==
    /\ pc = "force_delete_branch"
    /\ todo # <<>>
    /\ \E r \in force_delete_branch_returns :
           /\ calls' = Append(calls, Call("force_delete_branch", <<Head(todo)>>, r))
           /\ status' = status_after(status, r)
    /\ todo' = Tail(todo)
    /\ UNCHANGED <<pc, cli_arg, branch_name, remotes_to_delete, locals_to_delete,
                   exit_code, varsRepo, othersDrivers>>

\* if let Some(_) = status { exit(1); } and Ok(()).
AbandonFinish ==
    /\ pc = "force_delete_branch"
    /\ todo = <<>>
    /\ pc' = "exited"
    /\ exit_code' = IF status # <<>> THEN 1 ELSE ExitOf(Ok(<<>>))
    /\ UNCHANGED <<cli_arg, calls, todo, status, branch_name, remotes_to_delete,
                   locals_to_delete, varsRepo, othersDrivers>>

NextAbandon ==
    \/ AbandonStart \/ AbandonFetchPrune \/ AbandonAllRemoteBranches
    \/ AbandonPushDelete \/ AbandonAllLocalBranches \/ AbandonForceDeleteBranch
    \/ AbandonFinish

SpecAbandon == InitAbandon /\ [][NextAbandon]_vars

\* The branches the calls of operation o made so far were given, in call order.
ArgsOf(o) ==
    LET cs == SelectSeq(calls, LAMBDA c : c.op = o)
    IN  [i \in 1..Len(cs) |-> cs[i].argv[1]]

Deletions == {"push_delete", "force_delete_branch"}

SomeDeletionFailed ==
    \E i \in 1..Len(calls) : calls[i].op \in Deletions /\ ~calls[i].result.ok

Succeeded(o) == \E i \in 1..Len(calls) : calls[i].op = o /\ calls[i].result.ok

\* C5: in pr-abandon with a name, once the first loop is left push_delete has
\* been tried on every matching remote branch, in order, whichever of the
\* deletions failed; when the fetch and both listings succeeded, the run has
\* at its exit also tried a local delete on every matching local branch, and
\* its exit status is 1 if a deletion failed and 0 if none did.
C5_Abandon ==
    /\ (pc \in {"force_delete_branch", "exited"} /\ Succeeded("all_remote_branches"))
           => ArgsOf("push_delete") = remotes_to_delete
    /\ (pc = "exited" /\ Succeeded("all_local_branches")) =>
           /\ ArgsOf("force_delete_branch") = locals_to_delete
           /\ exit_code = IF SomeDeletionFailed THEN 1 ELSE 0

\* The first remote deletion failed, the second and both local ones were
\* still tried and succeeded, and the exit status is 1.
C5_Witness ==
    /\ pc = "exited"
    /\ exit_code = 1
    /\ Len(remotes_to_delete) = 2
    /\ Len(locals_to_delete) = 2
    /\ Len(calls) = 7
    /\ ~calls[3].result.ok
    /\ \A i \in 4..7 : calls[i].result.ok

---------------------------------------------------------------------------
(* SpecLocalBranch: parse one line of a branch listing into a LocalBranch. *)

\* Every line of up to MaxLineLen characters, and the lines of the tests of
\* local_branch.rs.
LocalBranchLines ==
    Strings({"*", " ", "\t", "a", "/", "0"}, MaxLineLen)
        \cup { <<"t", "r", "u", "n", "k">>,
               <<"*", " ", "t", "r", "u", "n", "k">>,
               <<" ", " ", "o", "t", "h", "e", "r", "/", "b", "r", "a", "n",
                 "c", "h", "/", "1", "2", "3", "a", "b", "c">> }

InitLocalBranch ==
    /\ pc = "start"
    /\ input_line \in LocalBranchLines
    /\ parsed = <<>>
    /\ IdleButLocalBranch

\* input_line.parse::<LocalBranch>()
ParseLocalBranch ==
    /\ pc = "start"
    /\ parsed' = LocalBranch_from_str(input_line)
    /\ pc' = "done"
    /\ UNCHANGED <<input_line, othersLocalBranch>>

NextLocalBranch == ParseLocalBranch

SpecLocalBranch == InitLocalBranch /\ [][NextLocalBranch]_vars

\* C11 as stated: for every line that parses into a LocalBranch, is_head is
\* true if and only if the line began with a "*".
C11_Original ==
    (pc = "done" /\ parsed # <<>>) =>
        (parsed[1].is_head <=> (input_line # <<>> /\ Head(input_line) = "*"))

\* The line, after any leading white space, begins with a "*" that white
\* space follows.
MarkerFirst(line) ==
    LET rest == trim_start(line)
    IN  /\ Len(rest) >= 2
        /\ rest[1] = "*"
        /\ rest[2] \in WhiteSpace

\* C11 as amended: for every line that parses into a LocalBranch, is_head is
\* true if and only if the first whitespace-delimited token of the line is
\* exactly "*": the marker stands alone, white space may come before it.
C11_HeadToken ==
    (pc = "done" /\ parsed # <<>>) =>
        (parsed[1].is_head <=> MarkerFirst(input_line))

\* The line of the test can_detect_head has been parsed.
C11_Witness ==
    /\ pc = "done"
    /\ input_line = <<"*", " ", "t", "r", "u", "n", "k">>
    /\ parsed = <<LocalBranch_new(TRUE, <<"t", "r", "u", "n", "k">>)>>

\* The characters of a line that are not white space, in order.
Inked(line) == SelectSeq(line, LAMBDA c : c \notin WhiteSpace)

\* C12 as stated: parsing fails with MissingName exactly when the line holds
\* no whitespace-delimited token.
C12_Original ==
    pc = "done" => (parsed = <<>> <=> Inked(input_line) = <<>>)

\* C12 as amended: parsing fails with MissingName exactly when the line
\* holds no whitespace-delimited token, or holds the token "*" and nothing
\* else; every other line parses.
C12_MissingName ==
    pc = "done" => (parsed = <<>> <=> Inked(input_line) \in {<<>>, <<"*">>})

\* A marker with no name after it has been refused.
C12_Witness == pc = "done" /\ input_line = <<"*", " ">> /\ parsed = <<>>

---------------------------------------------------------------------------
(* SpecFakeGit: the Git client of the unit tests, whose program is the     *)
(* scripted bin/fake_git; one call of an operation the tests call.         *)

S_fake_git == <<".", "/", "t", "a", "r", "g", "e", "t", "/", "d", "e", "b", "u",
    "g", "/", "f", "a", "k", "e", "_", "g", "i", "t">>

S_already_been_merged ==
    <<"a", "l", "r", "e", "a", "d", "y", "-", "b", "e", "e", "n", "-",
      "m", "e", "r", "g", "e", "d">>

FakeVersionOutput ==
    <<"f", "a", "k", "e", "_", "g", "i", "t", " ", "v", "e", "r", "s",
      "i", "o", "n", " ", "1", "\n">>

FakeHashOutput == <<"1", "2", "3", "4", "5", "6", "7", "\n">>

FakeMergedOutput ==
    <<"*", " ", "t", "r", "u", "n", "k", "\n", "a", "l", "r", "e", "a",
      "d", "y", "-", "b", "e", "e", "n", "-", "m", "e", "r", "g",
      "e", "d", "\n">>

\* argv!(n): <<>> for None, <<argument>> for Some(argument); args holds the
\* arguments after the program name.
Nth(args, n) == IF n <= Len(args) THEN <<args[n]>> ELSE <<>>

\* The run of fake_git that leaves `code` after printing `text`.
FakeExit(code, text) == [launched |-> TRUE, status |-> code, stdout |-> text]

\* fake_git's main: the exit status and the standard output for the
\* arguments it was started with.
fake_git(args) ==
    LET a1 == Nth(args, 1)
        a2 == Nth(args, 2)
        a3 == Nth(args, 3)
        a4 == Nth(args, 4)
    IN  IF a1 = <<>> THEN FakeExit(1, <<>>)
        ELSE IF a1 = <<S_C>>
             THEN IF a2 = <<>> THEN FakeExit(1, <<>>)
                  ELSE IF a3 = <<S_version>> THEN FakeExit(0, FakeVersionOutput)
                  ELSE FakeExit(1, <<>>)
        ELSE IF a1 = <<S_checkout>>
             THEN IF a2 = <<S_b>> /\ a3 # <<>> THEN FakeExit(0, <<>>)
                  ELSE FakeExit(1, <<>>)
        ELSE IF a1 = <<S_push>>
             THEN IF a2 = <<S_u>> /\ a3 = <<S_origin>> /\ a4 # <<>>
                  THEN FakeExit(0, <<>>)
                  ELSE FakeExit(1, <<>>)
        ELSE IF a1 = <<S_rev_parse>>
             THEN IF a2 = <<S_short>> /\ a3 = <<S_HEAD>>
                  THEN FakeExit(0, FakeHashOutput)
                  ELSE FakeExit(1, <<>>)
        ELSE IF a1 = <<S_branch>>
             THEN IF a2 = <<S_d>>
                  THEN IF a3 = <<S_already_been_merged>> THEN FakeExit(0, <<>>)
                       ELSE FakeExit(1, <<>>)
                  ELSE IF a2 = <<S_merged>> THEN FakeExit(0, FakeMergedOutput)
                  ELSE FakeExit(1, <<>>)
        ELSE FakeExit(1, <<>>)

\* Git::with_path of the tests of lib.rs.
Git_with_path(path) == [program |-> path, working_dir |-> S_dot]

\* The branch names the tests pass, and every short name.
FakeBranchArgs ==
    Strings(BranchAlphabet, MaxNameLen)
        \cup {S_already_been_merged, <<"h", "o", "t", "f", "i", "x">>}

InitFakeGit ==
    /\ pc = "idle"
    /\ IdleExec
    /\ IdleButExec

FakeVersion ==
    /\ pc = "idle"
    /\ LET a == version_argv(Git_with_path(S_fake_git))
       IN  Returned("version", a, fake_git(a), version(fake_git(a)))

FakeMergedBranches ==
    /\ pc = "idle"
    /\ LET a == merged_branches_argv(Git_with_path(S_fake_git))
       IN  Returned("merged_branches", a, fake_git(a), merged_branches(fake_git(a)))

FakeRevParseHead ==
    /\ pc = "idle"
    /\ LET a == rev_parse_head_argv(Git_with_path(S_fake_git))
       IN  Returned("rev_parse_head", a, fake_git(a), rev_parse_head(fake_git(a)))

FakeCreateBranch ==
    /\ pc = "idle"
    /\ \E b \in FakeBranchArgs :
           LET a == create_branch_argv(Git_with_path(S_fake_git), b)
           IN  Returned("create_branch", a, fake_git(a), create_branch(fake_git(a)))

FakeDeleteBranch ==
    /\ pc = "idle"
    /\ \E b \in FakeBranchArgs :
           LET a == delete_branch_argv(Git_with_path(S_fake_git), b)
           IN  Returned("delete_branch", a, fake_git(a), delete_branch(fake_git(a)))

NextFakeGit ==
    \/ FakeVersion \/ FakeMergedBranches \/ FakeRevParseHead
    \/ FakeCreateBranch \/ FakeDeleteBranch

SpecFakeGit == InitFakeGit /\ [][NextFakeGit]_vars

\* The names of the branches of a list of LocalBranch records.
NamesIn(records) == { records[i].name.value : i \in 1..Len(records) }

\* C15: with fake_git as its program the Git client gets, for the argument
\* vector it builds, exit status 0 from version, rev_parse_head,
\* create_branch of any name, merged_branches and delete_branch of
\* already-been-merged; rev_parse_head returns 1234567, merged_branches holds
\* already-been-merged, and create_branch and delete_branch return success.
C15_Substitutable ==
    pc = "returned" =>
        /\ op = "version" => (outcome.status = 0 /\ result.ok)
        /\ op = "rev_parse_head" =>
               /\ outcome.status = 0
               /\ result = Ok(<<"1", "2", "3", "4", "5", "6", "7">>)
        /\ op = "create_branch" => (outcome.status = 0 /\ result = Ok(<<>>))
        /\ op = "merged_branches" =>
               /\ outcome.status = 0
               /\ result.ok
               /\ S_already_been_merged \in NamesIn(result.value)
        /\ (op = "delete_branch" /\ argv[Len(argv)] = S_already_been_merged) =>
               (outcome.status = 0 /\ result = Ok(<<>>))

=============================================================================
